---- MODULE Spec2Model ----
(***************************************************************************)
(* The dsnoop capture-snooping plugin (src/src/pcm/pcm_dsnoop.c): the      *)
(* per-client pointer synchronization, the capture state machine and the  *)
(* open/close protocol on the shared segment and its gate; and the         *)
(* Ima-ADPCM quantizer of the conversion plugin                            *)
(* (src/src/pcm/plugin/adpcm.c).                                           *)
(***************************************************************************)
EXTENDS Integers, FiniteSets, Sequences, TLC

\* ------------------------------------------------------------------ bounds
NProcs == 3            \* processes that may open the plugin with one key
MaxBufferSize == 2     \* largest ring (frames) of a client
MaxAdvance == 2        \* frames the hardware adds to its cursor in one step
MaxCommit == 2         \* largest size handed to mmap_commit
MaxSamples == 12       \* samples one channel encodes after adpcm_init

\* ------------------------------------------------------------ errno values
EPIPE == 32
EBADFD == 77
EAGAIN == 11
ENODEV == 19
ENOMEM == 12
EINVAL == 22

Procs == 1..NProcs

VARIABLES
    \* the shared segment and its gate
    sem_exists,      \* the semaphore set of the key exists
    sem_holder,      \* process holding DIRECT_IPC_SEM_CLIENT, 0 when free
    shm_exists,      \* the shared segment of the key exists
    shm_nattch,      \* its reference count
    shm_buffer_size, \* shmptr->s.buffer_size
    shm_boundary,    \* shmptr->s.boundary
    shm_hw_ptr,      \* *spcm->hw.ptr, the owner's hardware cursor
    \* one process each
    opc,             \* position inside snd_pcm_dsnoop_open / _close
    dsn,             \* the snd_pcm_direct_t under construction / in use
    clients,         \* processes holding a pcm handle returned by open
    firsts,          \* processes that saw first_instance during this segment's life
    hw_openers,      \* processes that called snd_pcm_open_slave during this life
    \* the pcm of each client
    buffer_size, boundary, period_size, stop_threshold,
    state, hw_ptr, appl_ptr, slave_hw_ptr, avail_max,
    pc,              \* "idle", or "drain_wait" inside snd_pcm_wait of drain
    drain_thr,       \* drain's local stop_threshold
    last,            \* the last call: [op, c, ret, sync, out]
    \* one channel of the adpcm plugin, encoding, and one decoding its codes
    enc, dec,        \* adpcm_channel_t: [pred_val, step_idx]
    adp              \* samples so far, the last sample, its code, the
                     \* decoder's output and whether the code awaits decoding

shmvars == <<sem_exists, sem_holder, shm_exists, shm_nattch>>
cfgvars == <<shm_buffer_size, shm_boundary, buffer_size, boundary, period_size>>
adpcmvars == <<enc, dec, adp>>
openvars == <<opc, dsn, clients, firsts, hw_openers>>
pcmvars == <<stop_threshold, state, hw_ptr, appl_ptr, slave_hw_ptr, avail_max, pc, drain_thr>>
dsnoopvars == <<shmvars, cfgvars, openvars, pcmvars, shm_hw_ptr, last>>
vars == <<dsnoopvars, adpcmvars>>

\* ------------------------------------------------------------ adpcm.c
\* First table lookup for Ima-ADPCM quantizer
IndexAdjust == <<-1, -1, -1, -1, 2, 4, 6, 8>>

\* Second table lookup for Ima-ADPCM quantizer
StepSize ==
    <<7, 8, 9, 10, 11, 12, 13, 14, 16, 17,
      19, 21, 23, 25, 28, 31, 34, 37, 41, 45,
      50, 55, 60, 66, 73, 80, 88, 97, 107, 118,
      130, 143, 157, 173, 190, 209, 230, 253, 279, 307,
      337, 371, 408, 449, 494, 544, 598, 658, 724, 796,
      876, 963, 1060, 1166, 1282, 1411, 1552, 1707, 1878, 2066,
      2272, 2499, 2749, 3024, 3327, 3660, 4026, 4428, 4871, 5358,
      5894, 6484, 7132, 7845, 8630, 9493, 10442, 11487, 12635, 13899,
      15289, 16818, 18500, 20350, 22385, 24623, 27086, 29794, 32767>>

\* the value an int has once stored in a short (16 bits, two's complement)
ToShort(x) == ((x + 32768) % 65536) - 32768

\* adpcm_init: one channel
adpcm_init == [pred_val |-> 0, step_idx |-> 0]

\* the clamps of pred_val and of step_idx, in both functions
clamp_pred_val(v) == IF v > 32767 THEN 32767 ELSE IF v < -32768 THEN -32768 ELSE v

clamp_step_idx(i) == IF i < 0 THEN 0 ELSE IF i > 88 THEN 88 ELSE i

\* one turn of the encoder's loop on q = [diff, pred_diff, adjust_idx] with
\* bit i and the step of that turn
encoder_turn(q, i, step) ==
    IF q.diff >= step
    THEN [diff |-> ToShort(q.diff - step),
          pred_diff |-> ToShort(q.pred_diff + step),
          adjust_idx |-> q.adjust_idx + i]
    ELSE q

\* adpcm_encoder(sl, state): the code, the new state and the two 16-bit
\* intermediates diff (as first stored) and pred_diff (as last stored)
adpcm_encoder(sl, st) ==
    LET diff0 == ToShort(sl - st.pred_val)
        sign == IF diff0 < 0 THEN 8 ELSE 0
        diff == IF sign # 0 THEN ToShort(-diff0) ELSE diff0
        step == StepSize[st.step_idx + 1]
        q0 == [diff |-> diff, pred_diff |-> step \div 8, adjust_idx |-> 0]
        q1 == encoder_turn(q0, 4, step)
        q2 == encoder_turn(q1, 2, step \div 2)
        q3 == encoder_turn(q2, 1, step \div 4)
        pred_diff == q3.pred_diff
    IN [code |-> sign + q3.adjust_idx,
        state |-> [pred_val |-> clamp_pred_val(st.pred_val +
                                   (IF sign # 0 THEN -pred_diff ELSE pred_diff)),
                   step_idx |-> clamp_step_idx(st.step_idx +
                                   IndexAdjust[q3.adjust_idx + 1])],
        diff |-> diff0,
        pred_diff |-> pred_diff]

\* bit i of a code
CodeBit(code, i) == (code \div i) % 2 = 1

\* one turn of the decoder's loop
decoder_turn(pred_diff, code, i, step) ==
    IF CodeBit(code, i) THEN ToShort(pred_diff + step) ELSE pred_diff

\* the same with the sign taken from bit 4 of the code
adpcm_decoder_sign4(code0, st) ==
    LET sign == CodeBit(code0, 4)
        code == code0 % 8
        step == StepSize[st.step_idx + 1]
        pred_diff == decoder_turn(decoder_turn(decoder_turn(step \div 8,
                         code, 4, step), code, 2, step \div 2), code, 1, step \div 4)
        pred_val == clamp_pred_val(st.pred_val +
                                   (IF sign THEN -pred_diff ELSE pred_diff))
    IN [ret |-> pred_val,
        state |-> [pred_val |-> pred_val,
                   step_idx |-> clamp_step_idx(st.step_idx + IndexAdjust[code + 1])],
        pred_diff |-> pred_diff]

\* adpcm_decoder(code, state): the value returned, the new state and the
\* 16-bit intermediate pred_diff
adpcm_decoder(code0, st) ==
    LET sign == CodeBit(code0, 8)
        code == code0 % 8
        step == StepSize[st.step_idx + 1]
        pred_diff == decoder_turn(decoder_turn(decoder_turn(step \div 8,
                         code, 4, step), code, 2, step \div 2), code, 1, step \div 4)
        pred_val == clamp_pred_val(st.pred_val +
                                   (IF sign THEN -pred_diff ELSE pred_diff))
    IN [ret |-> pred_val,
        state |-> [pred_val |-> pred_val,
                   step_idx |-> clamp_step_idx(st.step_idx + IndexAdjust[code + 1])],
        pred_diff |-> pred_diff]

\* both channels as adpcm_init leaves them, nothing encoded yet
AdpcmIdle ==
    /\ enc = adpcm_init
    /\ dec = adpcm_init
    /\ adp = [n |-> 0, sl |-> 0, code |-> 0, out |-> 0, pending |-> FALSE]

\* the 16-bit samples fed to the encoder: the two ends of the range and 0
Samples == {-32768, 0, 32767}

\* adpcm_encode, one sample of one channel
adpcm_encode ==
    /\ ~adp.pending /\ adp.n < MaxSamples
    /\ \E sl \in Samples :
          LET e == adpcm_encoder(sl, enc)
          IN /\ enc' = e.state
             /\ adp' = [adp EXCEPT !.n = adp.n + 1, !.sl = sl, !.code = e.code,
                                   !.pending = TRUE]
    /\ UNCHANGED <<dec, dsnoopvars>>

\* adpcm_decode, one code of one channel, read from its nibble
adpcm_decode ==
    /\ adp.pending
    /\ LET d == adpcm_decoder(adp.code % 16, dec)
       IN /\ dec' = d.state
          /\ adp' = [adp EXCEPT !.out = ToShort(d.ret), !.pending = FALSE]
    /\ UNCHANGED <<enc, dsnoopvars>>

\* ------------------------------------------------------- pcm_local.h helpers
\* unread frames: hw_ptr - appl_ptr, plus boundary when negative
snd_pcm_mmap_capture_avail(c) ==
    LET avail == hw_ptr[c] - appl_ptr[c]
    IN IF avail < 0 THEN avail + boundary[c] ELSE avail

AvailOf(hw, appl, bnd) ==
    LET avail == hw - appl IN IF avail < 0 THEN avail + bnd ELSE avail

\* the unread-frame count the overrun test and delay use
snd_pcm_mmap_capture_hw_avail(hw, appl, bnd) == AvailOf(hw, appl, bnd)

snd_pcm_mmap_appl_forward(appl, frames, bnd) ==
    LET a == appl + frames IN IF a >= bnd THEN a - bnd ELSE a

snd_pcm_mmap_appl_backward(appl, frames, bnd) ==
    LET a == appl - frames IN IF a < 0 THEN a + bnd ELSE a

\* ------------------------------------------------------------ sync_ptr
\* lines 118-124: the frames the owner advanced since the last sync
sync_diff_nowrap(h, old, bnd) == h - old

sync_diff(h, old, bnd) ==
    LET diff == h - old
    IN IF diff < 0 THEN (h + bnd) - old ELSE diff

\* lines 126-127
sync_hw_ptr_nomod(hw, diff, bnd) == hw + diff

sync_hw_ptr(hw, diff, bnd) == (hw + diff) % bnd

\* lines 129-142: the overrun test, on the advanced hw_ptr
sync_check_never(st, hw, appl, amax, thr, bnd, diff) ==
    [state |-> st, avail_max |-> amax, ret |-> diff]

sync_check(st, hw, appl, amax, thr, bnd, diff) ==
    IF thr >= bnd
    THEN [state |-> st, avail_max |-> amax, ret |-> 0]
    ELSE LET avail == snd_pcm_mmap_capture_hw_avail(hw, appl, bnd)
         IN IF avail >= thr
            THEN [state |-> "XRUN", avail_max |-> avail, ret |-> -EPIPE]
            ELSE [state |-> st,
                  avail_max |-> IF avail > amax THEN avail ELSE amax,
                  ret |-> diff]

\* lines 95-96: the frames of one sub-copy, cut at the end of either ring
sync_area_transfer_client_only(hw, slave, size, bc, bs) ==
    IF hw + size > bc THEN bc - hw ELSE size

sync_area_transfer(hw, slave, size, bc, bs) ==
    LET transfer == IF hw + size > bc THEN bc - hw ELSE size
    IN IF slave + transfer > bs THEN bs - slave ELSE transfer

\* lines 94-103: the loop, as the sequence of the calls of snoop_areas
RECURSIVE sync_area_loop(_, _, _, _, _)
sync_area_loop(hw, slave, size, bc, bs) ==
    IF size <= 0 THEN << >>
    ELSE LET transfer == sync_area_transfer(hw, slave, size, bc, bs)
         IN <<[src_ofs |-> slave, dst_ofs |-> hw, size |-> transfer]>>
            \o sync_area_loop((hw + transfer) % bc, (slave + transfer) % bs,
                              size - transfer, bc, bs)

\* lines 83-105, called with the old slave_hw_ptr before hw_ptr advances
snd_pcm_dsnoop_sync_area(c, old, size) ==
    sync_area_loop(hw_ptr[c] % buffer_size[c], old % shm_buffer_size, size,
                   buffer_size[c], shm_buffer_size)

\* the whole of snd_pcm_dsnoop_sync_ptr for client c with threshold thr
snd_pcm_dsnoop_sync_ptr(c, thr) ==
    LET old == slave_hw_ptr[c]
        h == shm_hw_ptr
        diff == sync_diff(h, old, shm_boundary)
    IN IF h - old = 0
       THEN [slave_hw_ptr |-> h, hw_ptr |-> hw_ptr[c], state |-> state[c],
             avail_max |-> avail_max[c], ret |-> 0, diff |-> 0, copies |-> << >>]
       ELSE LET hw == sync_hw_ptr(hw_ptr[c], diff, boundary[c])
                chk == sync_check(state[c], hw, appl_ptr[c], avail_max[c],
                                  thr, boundary[c], diff)
            IN [slave_hw_ptr |-> h, hw_ptr |-> hw, state |-> chk.state,
                avail_max |-> chk.avail_max, ret |-> chk.ret, diff |-> diff,
                copies |-> snd_pcm_dsnoop_sync_area(c, old, diff)]

\* the fields a sync result r assigns to client c
ApplySync_keeps_slave(c, r) ==
    /\ slave_hw_ptr' = slave_hw_ptr
    /\ hw_ptr' = [hw_ptr EXCEPT ![c] = r.hw_ptr]
    /\ state' = [state EXCEPT ![c] = r.state]
    /\ avail_max' = [avail_max EXCEPT ![c] = r.avail_max]

ApplySync_shared(c, r) ==
    /\ slave_hw_ptr' = [slave_hw_ptr EXCEPT ![c] = r.slave_hw_ptr]
    /\ hw_ptr' = [hw_ptr EXCEPT ![c] = r.hw_ptr]
    /\ state' = [q \in Procs |-> IF q = c \/ r.ret = -EPIPE THEN r.state ELSE state[q]]
    /\ avail_max' = [avail_max EXCEPT ![c] = r.avail_max]

ApplySync(c, r) ==
    /\ slave_hw_ptr' = [slave_hw_ptr EXCEPT ![c] = r.slave_hw_ptr]
    /\ hw_ptr' = [hw_ptr EXCEPT ![c] = r.hw_ptr]
    /\ state' = [state EXCEPT ![c] = r.state]
    /\ avail_max' = [avail_max EXCEPT ![c] = r.avail_max]

\* what a call leaves for its caller: the entry point, the client, the value
\* returned and, when it ran snd_pcm_dsnoop_sync_ptr, that function's own
\* return value and diff
\* and, for status, the avail and avail_max it stores in *status
NoSync == [done |-> FALSE, ret |-> 0, diff |-> 0, copies |-> << >>]

NoOut == [avail |-> 0, avail_max |-> 0]

Return(op, c, r) ==
    last' = [op |-> op, c |-> c, ret |-> r, sync |-> NoSync, out |-> NoOut]

ReturnSync(op, c, r, sr) ==
    last' = [op |-> op, c |-> c, ret |-> r,
             sync |-> [done |-> TRUE, ret |-> sr.ret, diff |-> sr.diff,
                       copies |-> sr.copies],
             out |-> NoOut]

ReturnOut(op, c, r, o) ==
    last' = [op |-> op, c |-> c, ret |-> r, sync |-> NoSync, out |-> o]

Callable(c) == c \in clients /\ pc[c] = "idle"

\* ------------------------------------------------------------ the hardware
OwnerAdvance ==
    /\ clients # {}
    /\ \E n \in 1..MaxAdvance :
          shm_hw_ptr' = (shm_hw_ptr + n) % shm_boundary
    /\ UNCHANGED <<shmvars, cfgvars, adpcmvars, openvars, pcmvars, last>>

\* ------------------------------------------------------------ fast ops
hwsync_under_gate(c) ==
    /\ Callable(c)
    /\ sem_exists /\ sem_holder = 0
    /\ sem_holder' = c
    /\ IF state[c] \in {"DRAINING", "RUNNING"}
       THEN LET r == snd_pcm_dsnoop_sync_ptr(c, stop_threshold[c])
            IN ApplySync(c, r) /\ ReturnSync("hwsync", c, r.ret, r)
       ELSE /\ UNCHANGED <<state, hw_ptr, slave_hw_ptr, avail_max>>
            /\ Return("hwsync", c,
                      IF state[c] \in {"PREPARED", "SUSPENDED"} THEN 0
                      ELSE IF state[c] = "XRUN" THEN -EPIPE ELSE -EBADFD)
    /\ UNCHANGED <<sem_exists, shm_exists, shm_nattch, cfgvars, adpcmvars, openvars, shm_hw_ptr,
                   stop_threshold, appl_ptr, pc, drain_thr>>

snd_pcm_dsnoop_hwsync(c) ==
    /\ Callable(c)
    /\ IF state[c] \in {"DRAINING", "RUNNING"}
       THEN LET r == snd_pcm_dsnoop_sync_ptr(c, stop_threshold[c])
            IN ApplySync(c, r) /\ ReturnSync("hwsync", c, r.ret, r)
       ELSE /\ UNCHANGED <<state, hw_ptr, slave_hw_ptr, avail_max>>
            /\ Return("hwsync", c,
                      IF state[c] \in {"PREPARED", "SUSPENDED"} THEN 0
                      ELSE IF state[c] = "XRUN" THEN -EPIPE ELSE -EBADFD)
    /\ UNCHANGED <<shmvars, cfgvars, adpcmvars, openvars, shm_hw_ptr,
                   stop_threshold, appl_ptr, pc, drain_thr>>

snd_pcm_dsnoop_delay(c) ==
    /\ Callable(c)
    /\ IF state[c] \in {"DRAINING", "RUNNING"}
       THEN LET r == snd_pcm_dsnoop_sync_ptr(c, stop_threshold[c])
            IN /\ ApplySync(c, r)
               /\ ReturnSync("delay", c, IF r.ret < 0 THEN r.ret ELSE 0, r)
       ELSE /\ UNCHANGED <<state, hw_ptr, slave_hw_ptr, avail_max>>
            /\ Return("delay", c,
                      IF state[c] \in {"PREPARED", "SUSPENDED"} THEN 0
                      ELSE IF state[c] = "XRUN" THEN -EPIPE ELSE -EBADFD)
    /\ UNCHANGED <<shmvars, cfgvars, adpcmvars, openvars, shm_hw_ptr,
                   stop_threshold, appl_ptr, pc, drain_thr>>

snd_pcm_dsnoop_prepare(c) ==
    /\ Callable(c)
    /\ state' = [state EXCEPT ![c] = "PREPARED"]
    /\ appl_ptr' = [appl_ptr EXCEPT ![c] = 0]
    /\ hw_ptr' = [hw_ptr EXCEPT ![c] = 0]
    /\ Return("prepare", c, 0)
    /\ UNCHANGED <<shmvars, cfgvars, adpcmvars, openvars, shm_hw_ptr,
                   stop_threshold, slave_hw_ptr, avail_max, pc, drain_thr>>

\* the state test of start (line 408)
start_allowed_any(st) == st # "OPEN"

start_allowed_xrun(st) == st \in {"PREPARED", "XRUN"}

start_allowed(st) == st = "PREPARED"

start_keeps_slave(c) ==
    /\ Callable(c)
    /\ \E timer_ok \in BOOLEAN :
          IF ~start_allowed(state[c])
          THEN Return("start", c, -EBADFD) /\ UNCHANGED state
          ELSE IF ~timer_ok
          THEN Return("start", c, -ENODEV) /\ UNCHANGED state
          ELSE state' = [state EXCEPT ![c] = "RUNNING"] /\ Return("start", c, 0)
    /\ UNCHANGED <<shmvars, cfgvars, adpcmvars, openvars, shm_hw_ptr, slave_hw_ptr,
                   stop_threshold, hw_ptr, appl_ptr, avail_max, pc, drain_thr>>

snd_pcm_dsnoop_start(c) ==
    /\ Callable(c)
    /\ \E timer_ok \in BOOLEAN :
          IF ~start_allowed(state[c])
          THEN /\ Return("start", c, -EBADFD)
               /\ UNCHANGED <<state, slave_hw_ptr>>
          ELSE IF ~timer_ok
          THEN /\ Return("start", c, -ENODEV)
               /\ UNCHANGED <<state, slave_hw_ptr>>
          ELSE /\ state' = [state EXCEPT ![c] = "RUNNING"]
               /\ slave_hw_ptr' = [slave_hw_ptr EXCEPT ![c] = shm_hw_ptr]
               /\ Return("start", c, 0)
    /\ UNCHANGED <<shmvars, cfgvars, adpcmvars, openvars, shm_hw_ptr,
                   stop_threshold, hw_ptr, appl_ptr, avail_max, pc, drain_thr>>

\* drop's result on state st (lines 424-428)
drop_result_draining(st) ==
    IF st = "OPEN" THEN [state |-> st, ret |-> -EBADFD]
    ELSE [state |-> IF st = "RUNNING" THEN "DRAINING" ELSE "SETUP", ret |-> 0]

drop_result_stops(st) ==
    [state |-> "SETUP", ret |-> IF st = "OPEN" THEN -EBADFD ELSE 0]

drop_result(st) ==
    IF st = "OPEN" THEN [state |-> st, ret |-> -EBADFD]
    ELSE [state |-> "SETUP", ret |-> 0]

snd_pcm_dsnoop_drop(c) ==
    /\ Callable(c)
    /\ state' = [state EXCEPT ![c] = drop_result(state[c]).state]
    /\ Return("drop", c, drop_result(state[c]).ret)
    /\ UNCHANGED <<shmvars, cfgvars, adpcmvars, openvars, shm_hw_ptr,
                   stop_threshold, hw_ptr, appl_ptr, slave_hw_ptr, avail_max, pc, drain_thr>>

\* the state tests of pause (lines 458, 463)
pause_from_wrong(enable) == IF enable THEN "PREPARED" ELSE "PAUSED"

pause_from(enable) == IF enable THEN "RUNNING" ELSE "PAUSED"

snd_pcm_dsnoop_pause(c) ==
    /\ Callable(c)
    /\ \E enable \in BOOLEAN :
          IF state[c] # pause_from(enable)
          THEN /\ Return(IF enable THEN "pause_on" ELSE "pause_off", c, -EBADFD)
               /\ UNCHANGED state
          ELSE /\ state' = [state EXCEPT ![c] = IF enable THEN "PAUSED" ELSE "RUNNING"]
               /\ Return(IF enable THEN "pause_on" ELSE "pause_off", c, 0)
    /\ UNCHANGED <<shmvars, cfgvars, adpcmvars, openvars, shm_hw_ptr,
                   stop_threshold, hw_ptr, appl_ptr, slave_hw_ptr, avail_max, pc, drain_thr>>

snd_pcm_dsnoop_mmap_commit(c) ==
    /\ Callable(c)
    /\ \E size \in 0..MaxCommit :
          /\ size <= snd_pcm_mmap_capture_avail(c)
          /\ IF state[c] = "RUNNING"
             THEN LET r == snd_pcm_dsnoop_sync_ptr(c, stop_threshold[c])
                  IN /\ ApplySync(c, r)
                     /\ IF r.ret < 0
                        THEN ReturnSync("mmap_commit", c, r.ret, r) /\ UNCHANGED appl_ptr
                        ELSE /\ appl_ptr' = [appl_ptr EXCEPT ![c] =
                                   snd_pcm_mmap_appl_forward(appl_ptr[c], size, boundary[c])]
                             /\ ReturnSync("mmap_commit", c, size, r)
             ELSE /\ UNCHANGED <<state, hw_ptr, slave_hw_ptr, avail_max>>
                  /\ appl_ptr' = [appl_ptr EXCEPT ![c] =
                        snd_pcm_mmap_appl_forward(appl_ptr[c], size, boundary[c])]
                  /\ Return("mmap_commit", c, size)
    /\ UNCHANGED <<shmvars, cfgvars, adpcmvars, openvars, shm_hw_ptr, stop_threshold, pc, drain_thr>>

avail_update_always_syncs(c) ==
    /\ Callable(c)
    /\ LET r == snd_pcm_dsnoop_sync_ptr(c, stop_threshold[c])
       IN /\ ApplySync(c, r)
          /\ ReturnSync("avail_update", c,
                        IF r.ret < 0 THEN r.ret
                        ELSE AvailOf(r.hw_ptr, appl_ptr[c], boundary[c]), r)
    /\ UNCHANGED <<shmvars, cfgvars, adpcmvars, openvars, shm_hw_ptr,
                   stop_threshold, appl_ptr, pc, drain_thr>>

snd_pcm_dsnoop_avail_update(c) ==
    /\ Callable(c)
    /\ IF state[c] = "RUNNING"
       THEN LET r == snd_pcm_dsnoop_sync_ptr(c, stop_threshold[c])
            IN /\ ApplySync(c, r)
               /\ ReturnSync("avail_update", c,
                             IF r.ret < 0 THEN r.ret
                             ELSE AvailOf(r.hw_ptr, appl_ptr[c], boundary[c]), r)
       ELSE /\ UNCHANGED <<state, hw_ptr, slave_hw_ptr, avail_max>>
            /\ Return("avail_update", c, snd_pcm_mmap_capture_avail(c))
    /\ UNCHANGED <<shmvars, cfgvars, adpcmvars, openvars, shm_hw_ptr,
                   stop_threshold, appl_ptr, pc, drain_thr>>

\* lines 321-333: no sync; *status gets the state, the available count and
\* the larger of it and avail_max, and avail_max restarts from 0
snd_pcm_dsnoop_status(c) ==
    /\ Callable(c)
    /\ LET avail == snd_pcm_mmap_capture_avail(c)
       IN ReturnOut("status", c, 0,
                    [avail |-> avail,
                     avail_max |-> IF avail > avail_max[c] THEN avail
                                   ELSE avail_max[c]])
    /\ avail_max' = [avail_max EXCEPT ![c] = 0]
    /\ UNCHANGED <<shmvars, cfgvars, adpcmvars, openvars, shm_hw_ptr,
                   stop_threshold, state, hw_ptr, appl_ptr, slave_hw_ptr, pc, drain_thr>>

\* lines 393-400
snd_pcm_dsnoop_reset(c) ==
    /\ Callable(c)
    /\ hw_ptr' = [hw_ptr EXCEPT ![c] = hw_ptr[c] % period_size[c]]
    /\ appl_ptr' = [appl_ptr EXCEPT ![c] = hw_ptr[c] % period_size[c]]
    /\ slave_hw_ptr' = [slave_hw_ptr EXCEPT ![c] = shm_hw_ptr]
    /\ Return("reset", c, 0)
    /\ UNCHANGED <<shmvars, cfgvars, adpcmvars, openvars, shm_hw_ptr,
                   stop_threshold, state, avail_max, pc, drain_thr>>

\* lines 471-475: frames is not compared with anything
snd_pcm_dsnoop_rewind(c) ==
    /\ Callable(c)
    /\ \E frames \in 1..MaxCommit :
          /\ appl_ptr' = [appl_ptr EXCEPT ![c] =
                snd_pcm_mmap_appl_backward(appl_ptr[c], frames, boundary[c])]
          /\ Return("rewind", c, frames)
    /\ UNCHANGED <<shmvars, cfgvars, adpcmvars, openvars, shm_hw_ptr,
                   stop_threshold, state, hw_ptr, slave_hw_ptr, avail_max, pc, drain_thr>>

\* lines 477-488
snd_pcm_dsnoop_forward(c) ==
    /\ Callable(c)
    /\ \E frames \in 1..MaxCommit :
          LET avail == snd_pcm_mmap_capture_hw_avail(hw_ptr[c], appl_ptr[c], boundary[c])
              n == IF frames > avail THEN avail ELSE frames
          IN IF avail < 0
             THEN Return("forward", c, 0) /\ UNCHANGED appl_ptr
             ELSE /\ appl_ptr' = [appl_ptr EXCEPT ![c] =
                        snd_pcm_mmap_appl_forward(appl_ptr[c], n, boundary[c])]
                  /\ Return("forward", c, n)
    /\ UNCHANGED <<shmvars, cfgvars, adpcmvars, openvars, shm_hw_ptr,
                   stop_threshold, state, hw_ptr, slave_hw_ptr, avail_max, pc, drain_thr>>

\* lines 497-505: what either write entry point returns for size frames
write_result_accepts(size) == size

write_result(size) == -ENODEV

snd_pcm_dsnoop_writei(c) ==
    /\ Callable(c)
    /\ \E size \in 0..MaxCommit : Return("writei", c, write_result(size))
    /\ UNCHANGED <<shmvars, cfgvars, adpcmvars, openvars, shm_hw_ptr, pcmvars>>

snd_pcm_dsnoop_writen(c) ==
    /\ Callable(c)
    /\ \E size \in 0..MaxCommit : Return("writen", c, write_result(size))
    /\ UNCHANGED <<shmvars, cfgvars, adpcmvars, openvars, shm_hw_ptr, pcmvars>>

\* line 446: does drain return -EAGAIN after a poll that found no overrun
drain_never_again(nonblock) == FALSE

drain_again(nonblock) == nonblock

\* the name a drain call goes by in `last`
DrainOp(nonblock) == IF nonblock THEN "drain_nb" ELSE "drain"

\* drain's loop (lines 442-451), entered with the local copy `saved` of the
\* stop threshold, the threshold thr now in force and pcm->mode & SND_PCM_NONBLOCK
DrainLoop(c, saved, thr, nonblock) ==
    IF state[c] # "RUNNING"
    THEN /\ stop_threshold' = [stop_threshold EXCEPT ![c] = saved]
         /\ state' = [state EXCEPT ![c] = drop_result(state[c]).state]
         /\ Return(DrainOp(nonblock), c, drop_result(state[c]).ret)
         /\ pc' = [pc EXCEPT ![c] = "idle"]
         /\ drain_thr' = [drain_thr EXCEPT ![c] = 0]
         /\ UNCHANGED <<hw_ptr, slave_hw_ptr, avail_max>>
    ELSE LET r == snd_pcm_dsnoop_sync_ptr(c, thr)
         IN /\ slave_hw_ptr' = [slave_hw_ptr EXCEPT ![c] = r.slave_hw_ptr]
            /\ hw_ptr' = [hw_ptr EXCEPT ![c] = r.hw_ptr]
            /\ avail_max' = [avail_max EXCEPT ![c] = r.avail_max]
            /\ IF r.ret < 0
               THEN /\ stop_threshold' = [stop_threshold EXCEPT ![c] = saved]
                    /\ state' = [state EXCEPT ![c] = drop_result(r.state).state]
                    /\ ReturnSync(DrainOp(nonblock), c, drop_result(r.state).ret, r)
                    /\ pc' = [pc EXCEPT ![c] = "idle"]
                    /\ drain_thr' = [drain_thr EXCEPT ![c] = 0]
               ELSE IF drain_again(nonblock)
               THEN /\ stop_threshold' = [stop_threshold EXCEPT ![c] = thr]
                    /\ state' = [state EXCEPT ![c] = r.state]
                    /\ ReturnSync(DrainOp(nonblock), c, -EAGAIN, r)
                    /\ pc' = [pc EXCEPT ![c] = "idle"]
                    /\ drain_thr' = [drain_thr EXCEPT ![c] = 0]
               ELSE /\ stop_threshold' = [stop_threshold EXCEPT ![c] = thr]
                    /\ state' = [state EXCEPT ![c] = r.state]
                    /\ ReturnSync(IF nonblock THEN DrainOp(nonblock) ELSE "drain_wait",
                                  c, r.ret, r)
                    /\ pc' = [pc EXCEPT ![c] = "drain_wait"]
                    /\ drain_thr' = [drain_thr EXCEPT ![c] = saved]

\* drain up to its first return or its first snd_pcm_wait
snd_pcm_dsnoop_drain(c) ==
    /\ Callable(c)
    /\ IF state[c] = "OPEN"
       THEN /\ Return("drain", c, -EBADFD)
            /\ UNCHANGED pcmvars
       ELSE /\ \E nonblock \in BOOLEAN :
                  DrainLoop(c, stop_threshold[c],
                            IF stop_threshold[c] > buffer_size[c]
                            THEN buffer_size[c] ELSE stop_threshold[c],
                            nonblock)
            /\ UNCHANGED appl_ptr
    /\ UNCHANGED <<shmvars, cfgvars, adpcmvars, openvars, shm_hw_ptr>>

\* snd_pcm_wait returns inside drain (line 448) and the loop goes round
DrainWake(c) ==
    /\ c \in clients
    /\ pc[c] = "drain_wait"
    /\ DrainLoop(c, drain_thr[c], stop_threshold[c], FALSE)
    /\ UNCHANGED <<shmvars, cfgvars, adpcmvars, openvars, shm_hw_ptr, appl_ptr>>


\* ------------------------------------------------------------ open and close
\* calloc'ed snd_pcm_direct_t with semid = shmid = -1 (lines 654-666)
NoDsn == [semid |-> "none", shmid |-> FALSE, first |-> FALSE,
          server |-> FALSE, client |-> FALSE, spcm |-> "none"]

\* the semaphore set is removed: the token goes with it and the ids the other
\* processes hold become stale
GateDestroyed(p) ==
    /\ sem_exists' = FALSE
    /\ sem_holder' = 0
    /\ dsn' = [q \in Procs |->
                 IF q = p THEN NoDsn
                 ELSE IF dsn[q].semid = "cur" THEN [dsn[q] EXCEPT !.semid = "stale"]
                 ELSE dsn[q]]

snd_pcm_direct_semaphore_up(p) ==
    /\ sem_holder' = 0
    /\ UNCHANGED sem_exists
    /\ dsn' = [dsn EXCEPT ![p] = NoDsn]

GateUntouched(p) ==
    /\ UNCHANGED <<sem_exists, sem_holder>>
    /\ dsn' = [dsn EXCEPT ![p] = NoDsn]

\* snd_pcm_direct_shm_discard: drop one reference, remove the segment with
\* the last one; TRUE when it was removed
ShmRemoved == shm_nattch = 1

snd_pcm_direct_shm_discard ==
    /\ shm_nattch' = shm_nattch - 1
    /\ shm_exists' = ~ShmRemoved
    /\ firsts' = IF ShmRemoved THEN {} ELSE firsts
    /\ hw_openers' = IF ShmRemoved THEN {} ELSE hw_openers

\* does the error path of open give the token back when the segment stays
\* (lines 781-788 have no else branch)
err_up_when_kept == FALSE

\* does close give the token back when the segment stays (lines 532-534)
close_up_when_kept == TRUE

\* the _err label of open (lines 771-795) for the dsnoop record d of p;
\* discard_ok: snd_pcm_direct_semaphore_discard succeeds
open_err(p, d, discard_ok) ==
    IF d.shmid
    THEN /\ snd_pcm_direct_shm_discard
         /\ IF ShmRemoved
            THEN IF d.semid = "cur"
                 THEN IF discard_ok THEN GateDestroyed(p)
                      ELSE snd_pcm_direct_semaphore_up(p)
                 ELSE GateUntouched(p)
            ELSE IF err_up_when_kept THEN snd_pcm_direct_semaphore_up(p)
                 ELSE GateUntouched(p)
    ELSE /\ UNCHANGED <<shm_exists, shm_nattch, firsts, hw_openers>>
         /\ GateUntouched(p)

\* a new pcm: what calloc and snd_pcm_new leave in it
FreshPcm(p) ==
    /\ state' = [state EXCEPT ![p] = "OPEN"]
    /\ hw_ptr' = [hw_ptr EXCEPT ![p] = 0]
    /\ appl_ptr' = [appl_ptr EXCEPT ![p] = 0]
    /\ slave_hw_ptr' = [slave_hw_ptr EXCEPT ![p] = 0]
    /\ avail_max' = [avail_max EXCEPT ![p] = 0]
    /\ UNCHANGED <<stop_threshold, pc, drain_thr>>

\* lines 654-676: allocation and snd_pcm_direct_semaphore_create_or_connect
OpenBegin(p) ==
    /\ opc[p] = "idle" /\ p \notin clients
    /\ \E ok \in BOOLEAN :
          IF ok
          THEN /\ sem_exists' = TRUE
               /\ sem_holder' = IF sem_exists THEN sem_holder ELSE 0
               /\ dsn' = [dsn EXCEPT ![p] = [NoDsn EXCEPT !.semid = "cur"]]
               /\ opc' = [opc EXCEPT ![p] = "o_down"]
               /\ UNCHANGED last
          ELSE /\ UNCHANGED <<sem_exists, sem_holder, dsn, opc>>
               /\ Return("open", p, -ENOMEM)
    /\ UNCHANGED <<shm_exists, shm_nattch, cfgvars, adpcmvars, clients, firsts, hw_openers,
                   pcmvars, shm_hw_ptr>>

\* lines 678-682: snd_pcm_direct_semaphore_down(CLIENT); it waits while
\* another process holds the token and fails when the set was removed
OpenDown(p) ==
    /\ opc[p] = "o_down"
    /\ IF dsn[p].semid = "stale"
       THEN /\ dsn' = [dsn EXCEPT ![p] = NoDsn]
            /\ opc' = [opc EXCEPT ![p] = "idle"]
            /\ Return("open", p, -EINVAL)
            /\ UNCHANGED <<sem_exists, sem_holder>>
       ELSE /\ sem_exists /\ sem_holder = 0
            /\ sem_holder' = p
            /\ opc' = [opc EXCEPT ![p] = "o_shm"]
            /\ UNCHANGED <<sem_exists, dsn, last>>
    /\ UNCHANGED <<shm_exists, shm_nattch, cfgvars, adpcmvars, clients, firsts, hw_openers,
                   pcmvars, shm_hw_ptr>>

\* lines 684-693: snd_pcm_direct_shm_create_or_connect
OpenShm(p) ==
    /\ opc[p] = "o_shm"
    /\ \E ok \in BOOLEAN :
          IF ok
          THEN LET first == ~shm_exists
               IN /\ shm_exists' = TRUE
                  /\ shm_nattch' = shm_nattch + 1
                  /\ shm_hw_ptr' = IF first THEN 0 ELSE shm_hw_ptr
                  /\ firsts' = IF first THEN {p} ELSE firsts
                  /\ hw_openers' = IF first THEN {} ELSE hw_openers
                  /\ dsn' = [dsn EXCEPT ![p].shmid = TRUE, ![p].first = first]
                  /\ opc' = [opc EXCEPT ![p] = "o_setup"]
                  /\ FreshPcm(p)
                  /\ UNCHANGED last
          ELSE /\ open_err(p, dsn[p], TRUE)
               /\ opc' = [opc EXCEPT ![p] = "idle"]
               /\ Return("open", p, -ENOMEM)
               /\ UNCHANGED <<pcmvars, shm_hw_ptr>>
    /\ UNCHANGED <<sem_exists, sem_holder, cfgvars, adpcmvars, clients>>

\* line 695: which branch open takes
open_as_server_always(first) == TRUE

open_as_server(first) == first

ServerSteps == {"open_slave", "not_hw", "initialize_slave", "server_create"}
ClientSteps == {"client_connect", "hw_open_fd", "mmap"}

\* the snd_pcm_direct_t at the moment step `fail` of lines 695-754 fails
DsnAtFailure(d, fail) ==
    [d EXCEPT
       !.spcm = IF fail \in {"not_hw", "initialize_slave"} THEN "hw"
                ELSE IF fail = "server_create" THEN "hw"
                ELSE IF fail = "mmap" THEN "fd"
                ELSE IF fail = "poll_fd" THEN (IF open_as_server(d.first) THEN "hw" ELSE "fd")
                ELSE "none",
       !.server = fail = "poll_fd" /\ open_as_server(d.first),
       !.client = (fail \in {"hw_open_fd", "mmap", "poll_fd"}) /\ ~open_as_server(d.first)]

\* lines 695-769: the server or the client branch, the poll descriptor and
\* the release of the token; fail names the step that fails, "none" if none
OpenSetup(p) ==
    /\ opc[p] = "o_setup"
    /\ \E fail \in ServerSteps \cup ClientSteps \cup {"poll_fd", "none"},
          discard_ok \in BOOLEAN :
          /\ IF open_as_server(dsn[p].first)
             THEN fail \notin ClientSteps
             ELSE fail \notin ServerSteps
          \* a client gets its handle from a living server only
          /\ (~open_as_server(dsn[p].first) /\ fail # "client_connect")
                => \E q \in clients : dsn[q].server
          /\ opc' = [opc EXCEPT ![p] = "idle"]
          /\ IF fail = "none"
             THEN /\ dsn' = [dsn EXCEPT
                               ![p].server = open_as_server(dsn[p].first),
                               ![p].client = ~open_as_server(dsn[p].first),
                               ![p].spcm = IF open_as_server(dsn[p].first)
                                           THEN "hw" ELSE "fd"]
                  /\ hw_openers' = IF open_as_server(dsn[p].first)
                                   THEN hw_openers \cup {p} ELSE hw_openers
                  /\ sem_holder' = 0
                  /\ clients' = clients \cup {p}
                  /\ Return("open", p, 0)
                  /\ UNCHANGED <<sem_exists, shm_exists, shm_nattch, firsts>>
             ELSE IF fail = "client_connect"
             THEN \* line 726: return ret
                  /\ Return("open", p, -EINVAL)
                  /\ UNCHANGED <<shmvars, dsn, clients, firsts, hw_openers>>
             ELSE /\ open_err(p, DsnAtFailure(dsn[p], fail), discard_ok)
                  /\ Return("open", p, IF fail = "not_hw" THEN 0 ELSE -EINVAL)
                  /\ UNCHANGED clients
    /\ UNCHANGED <<cfgvars, adpcmvars, pcmvars, shm_hw_ptr>>

\* lines 521-523 of close: the timer, then snd_pcm_direct_semaphore_down
CloseBegin(p) ==
    /\ p \in clients /\ pc[p] = "idle" /\ opc[p] = "idle"
    /\ clients' = clients \ {p}
    /\ opc' = [opc EXCEPT ![p] = "c_down"]
    /\ UNCHANGED <<shmvars, cfgvars, adpcmvars, dsn, firsts, hw_openers, pcmvars, shm_hw_ptr, last>>

CloseDown(p) ==
    /\ opc[p] = "c_down"
    /\ sem_exists /\ sem_holder = 0
    /\ sem_holder' = p
    /\ opc' = [opc EXCEPT ![p] = "c_discard"]
    /\ UNCHANGED <<sem_exists, shm_exists, shm_nattch, cfgvars, adpcmvars, dsn, clients,
                   firsts, hw_openers, pcmvars, shm_hw_ptr, last>>

\* lines 524-539 of close
CloseDiscard(p) ==
    /\ opc[p] = "c_discard"
    /\ \E discard_ok \in BOOLEAN :
          /\ snd_pcm_direct_shm_discard
          /\ IF ShmRemoved
             THEN IF discard_ok THEN GateDestroyed(p)
                  ELSE snd_pcm_direct_semaphore_up(p)
             ELSE IF close_up_when_kept THEN snd_pcm_direct_semaphore_up(p)
                  ELSE GateUntouched(p)
    /\ opc' = [opc EXCEPT ![p] = "idle"]
    /\ FreshPcm(p)
    /\ Return("close", p, 0)
    /\ UNCHANGED <<cfgvars, adpcmvars, clients, shm_hw_ptr>>

OpenClose(p) ==
    \/ OpenBegin(p)
    \/ OpenDown(p)
    \/ OpenShm(p)
    \/ OpenSetup(p)
    \/ CloseBegin(p)
    \/ CloseDown(p)
    \/ CloseDiscard(p)

\* ------------------------------------------------------------ specifications
\* the boundary snd_pcm_hw_params gives a ring of buf frames: a multiple of it
BoundaryOf(buf) == buf * 2

\* the period sizes of a ring of buf frames: one period or one-frame periods
PeriodsOf(buf) == {1, buf}

\* the default stop threshold (the buffer size) and the "never stop" one
ThresholdsOf(buf) == {buf, BoundaryOf(buf)}

\* the processes cl hold the pcm, process 1 as first instance, the owner's
\* ring has sbuf frames; each client's ring size and stop threshold are those
\* of some hw_params/sw_params
InitPcm(cl, sbuf) ==
    /\ sem_exists = TRUE /\ sem_holder = 0
    /\ shm_exists = TRUE /\ shm_nattch = Cardinality(cl)
    /\ shm_buffer_size = sbuf
    /\ shm_boundary = BoundaryOf(sbuf)
    /\ shm_hw_ptr = 0
    /\ opc = [p \in Procs |-> "idle"]
    /\ dsn = [p \in Procs |-> IF p \in cl
                THEN [semid |-> "cur", shmid |-> TRUE, first |-> p = 1,
                      server |-> p = 1, client |-> p # 1,
                      spcm |-> IF p = 1 THEN "hw" ELSE "fd"]
                ELSE NoDsn]
    /\ clients = cl
    /\ firsts = {1}
    /\ hw_openers = {1}
    /\ buffer_size \in [Procs -> 1..MaxBufferSize]
    /\ \A p \in Procs \ cl : buffer_size[p] = 1
    /\ boundary = [p \in Procs |-> BoundaryOf(buffer_size[p])]
    /\ period_size \in [Procs -> 1..MaxBufferSize]
    /\ \A p \in Procs : period_size[p] \in PeriodsOf(buffer_size[p])
    /\ stop_threshold \in [Procs -> 1..BoundaryOf(MaxBufferSize)]
    /\ \A p \in Procs : stop_threshold[p] \in ThresholdsOf(buffer_size[p])
    /\ \A p \in Procs \ cl : stop_threshold[p] = 1
    /\ state = [p \in Procs |-> "OPEN"]
    /\ hw_ptr = [p \in Procs |-> 0]
    /\ appl_ptr = [p \in Procs |-> 0]
    /\ slave_hw_ptr = [p \in Procs |-> 0]
    /\ avail_max = [p \in Procs |-> 0]
    /\ pc = [p \in Procs |-> "idle"]
    /\ drain_thr = [p \in Procs |-> 0]
    /\ last = [op |-> "open", c |-> 1, ret |-> 0, sync |-> NoSync, out |-> NoOut]
    /\ AdpcmIdle

Init == InitPcm({1}, 2) /\ period_size = buffer_size

PcmOp(c) ==
    \/ snd_pcm_dsnoop_hwsync(c)
    \/ snd_pcm_dsnoop_delay(c)
    \/ snd_pcm_dsnoop_prepare(c)
    \/ snd_pcm_dsnoop_start(c)
    \/ snd_pcm_dsnoop_drop(c)
    \/ snd_pcm_dsnoop_drain(c)
    \/ DrainWake(c)
    \/ snd_pcm_dsnoop_pause(c)
    \/ snd_pcm_dsnoop_mmap_commit(c)
    \/ snd_pcm_dsnoop_avail_update(c)

Next ==
    \/ OwnerAdvance
    \/ \E c \in Procs : PcmOp(c)

Spec == Init /\ [][Next]_vars

\* the whole table of entry points on one client with a ring of 2 frames in
\* one period
InitOps == InitPcm({1}, 2) /\ buffer_size[1] = 2 /\ period_size[1] = 2

MoreOp(c) ==
    \/ snd_pcm_dsnoop_status(c)
    \/ snd_pcm_dsnoop_reset(c)
    \/ snd_pcm_dsnoop_rewind(c)
    \/ snd_pcm_dsnoop_forward(c)
    \/ snd_pcm_dsnoop_writei(c)
    \/ snd_pcm_dsnoop_writen(c)

NextOps ==
    \/ OwnerAdvance
    \/ \E c \in Procs : PcmOp(c)
    \/ \E c \in Procs : MoreOp(c)

SpecOps == InitOps /\ [][NextOps]_vars

\* the hardware while a client waits inside drain: the timer wakes the waiter
\* every period, so between two polls of a waiting client the owner's cursor
\* moves by less than a boundary, the shared one and the client's
OwnerTick ==
    /\ OwnerAdvance
    /\ \A c \in clients :
          pc[c] = "drain_wait" =>
             LET pending == (shm_hw_ptr' - slave_hw_ptr[c]) % shm_boundary
                 n == (shm_hw_ptr' - shm_hw_ptr) % shm_boundary
             IN /\ pending >= n
                /\ pending > 0
                /\ snd_pcm_mmap_capture_avail(c) + pending < boundary[c]

\* one client with a ring of 2 frames that prepares, starts, pauses, drops
\* and drains, in either mode
InitDrain ==
    /\ InitPcm({1}, 2)
    /\ buffer_size[1] = 2
    /\ period_size[1] = 1

DrainOpsOf(c) ==
    \/ snd_pcm_dsnoop_prepare(c)
    \/ snd_pcm_dsnoop_start(c)
    \/ snd_pcm_dsnoop_pause(c)
    \/ snd_pcm_dsnoop_drop(c)
    \/ snd_pcm_dsnoop_drain(c)
    \/ DrainWake(c)

NextDrain ==
    \/ OwnerTick
    \/ \E c \in Procs : DrainOpsOf(c)

\* the hardware keeps capturing and snd_pcm_wait returns
SpecDrain ==
    /\ InitDrain
    /\ [][NextDrain]_vars
    /\ WF_vars(OwnerTick)
    /\ \A c \in Procs : WF_vars(DrainWake(c))

\* the owner holds the pcm and captures while the other processes open the
\* plugin and, once attached as clients, prepare, start, sync and reset
InitAttach ==
    /\ InitPcm({1}, 2)
    /\ buffer_size[1] = 2
    /\ period_size[1] = 1
    /\ stop_threshold[1] = 2

AttachOp(c) ==
    \/ OpenBegin(c)
    \/ OpenDown(c)
    \/ OpenShm(c)
    \/ OpenSetup(c)
    \/ dsn[c].client /\ snd_pcm_dsnoop_prepare(c)
    \/ dsn[c].client /\ snd_pcm_dsnoop_start(c)
    \/ dsn[c].client /\ snd_pcm_dsnoop_hwsync(c)
    \/ dsn[c].client /\ snd_pcm_dsnoop_reset(c)

\* the two processes that attach late
Attachers == {2, 3}

NextAttach ==
    \/ OwnerAdvance
    \/ \E c \in Attachers : AttachOp(c)

SpecAttach == InitAttach /\ [][NextAttach]_vars

\* no process has opened the plugin yet: no segment and no gate for the key
InitOpen ==
    /\ sem_exists = FALSE /\ sem_holder = 0
    /\ shm_exists = FALSE /\ shm_nattch = 0
    /\ shm_buffer_size = 2
    /\ shm_boundary = BoundaryOf(2)
    /\ shm_hw_ptr = 0
    /\ opc = [p \in Procs |-> "idle"]
    /\ dsn = [p \in Procs |-> NoDsn]
    /\ clients = {}
    /\ firsts = {}
    /\ hw_openers = {}
    /\ buffer_size = [p \in Procs |-> MaxBufferSize]
    /\ boundary = [p \in Procs |-> BoundaryOf(MaxBufferSize)]
    /\ period_size = [p \in Procs |-> MaxBufferSize]
    /\ stop_threshold = [p \in Procs |-> MaxBufferSize]
    /\ state = [p \in Procs |-> "OPEN"]
    /\ hw_ptr = [p \in Procs |-> 0]
    /\ appl_ptr = [p \in Procs |-> 0]
    /\ slave_hw_ptr = [p \in Procs |-> 0]
    /\ avail_max = [p \in Procs |-> 0]
    /\ pc = [p \in Procs |-> "idle"]
    /\ drain_thr = [p \in Procs |-> 0]
    /\ last = [op |-> "none", c |-> 0, ret |-> 0, sync |-> NoSync, out |-> NoOut]
    /\ AdpcmIdle

NextOpen == \E p \in Procs : OpenClose(p)

SpecOpen == InitOpen /\ [][NextOpen]_vars

\* two processes hold the pcm, the first as owner, with rings of different
\* sizes and the default stop thresholds
InitIso ==
    /\ InitPcm({1, 2}, 2)
    /\ buffer_size = [p \in Procs |-> IF p = 1 THEN 2 ELSE 1]
    /\ period_size = buffer_size
    /\ stop_threshold = buffer_size

IsoOp(c) ==
    \/ snd_pcm_dsnoop_prepare(c)
    \/ snd_pcm_dsnoop_start(c)
    \/ snd_pcm_dsnoop_avail_update(c)
    \/ snd_pcm_dsnoop_mmap_commit(c)

NextIso ==
    \/ OwnerAdvance
    \/ \E c \in Procs : IsoOp(c)

SpecIso == InitIso /\ [][NextIso]_vars

\* a client that syncs while a second process opens and closes the pcm
InitGate ==
    /\ InitPcm({1}, 2)
    /\ buffer_size[1] = 2
    /\ period_size[1] = 2
    /\ stop_threshold[1] = 2

GateOp(c) ==
    \/ snd_pcm_dsnoop_prepare(c)
    \/ snd_pcm_dsnoop_start(c)
    \/ snd_pcm_dsnoop_hwsync(c)
    \/ snd_pcm_dsnoop_delay(c)
    \/ snd_pcm_dsnoop_avail_update(c)
    \/ snd_pcm_dsnoop_mmap_commit(c)
    \/ snd_pcm_dsnoop_drain(c)
    \/ DrainWake(c)

\* the process that attaches late and detaches again
Gaters == {2}

NextGate ==
    \/ OwnerAdvance
    \/ GateOp(1)
    \/ \E p \in Gaters : OpenClose(p)

SpecGate == InitGate /\ [][NextGate]_vars

\* one running client whose ring and the owner's ring have any sizes up to
\* MaxRing, equal or different
MaxRing == MaxBufferSize + 2

InitCopy ==
    /\ sem_exists = TRUE /\ sem_holder = 0
    /\ shm_exists = TRUE /\ shm_nattch = 1
    /\ shm_buffer_size \in 1..MaxRing
    /\ shm_boundary = BoundaryOf(shm_buffer_size)
    /\ shm_hw_ptr = 0
    /\ opc = [p \in Procs |-> "idle"]
    /\ dsn = [p \in Procs |-> IF p = 1
                THEN [semid |-> "cur", shmid |-> TRUE, first |-> TRUE,
                      server |-> TRUE, client |-> FALSE, spcm |-> "hw"]
                ELSE NoDsn]
    /\ clients = {1}
    /\ firsts = {1}
    /\ hw_openers = {1}
    /\ \E buf \in 1..MaxRing :
          /\ buffer_size = [p \in Procs |-> IF p = 1 THEN buf ELSE 1]
          /\ period_size = buffer_size
          /\ stop_threshold = [p \in Procs |-> IF p = 1 THEN BoundaryOf(buf) ELSE 1]
    /\ boundary = [p \in Procs |-> BoundaryOf(buffer_size[p])]
    /\ state = [p \in Procs |-> "OPEN"]
    /\ hw_ptr = [p \in Procs |-> 0]
    /\ appl_ptr = [p \in Procs |-> 0]
    /\ slave_hw_ptr = [p \in Procs |-> 0]
    /\ avail_max = [p \in Procs |-> 0]
    /\ pc = [p \in Procs |-> "idle"]
    /\ drain_thr = [p \in Procs |-> 0]
    /\ last = [op |-> "open", c |-> 1, ret |-> 0, sync |-> NoSync, out |-> NoOut]
    /\ AdpcmIdle

CopyOp(c) ==
    \/ snd_pcm_dsnoop_prepare(c)
    \/ snd_pcm_dsnoop_start(c)
    \/ snd_pcm_dsnoop_hwsync(c)
    \/ snd_pcm_dsnoop_avail_update(c)

NextCopy ==
    \/ OwnerAdvance
    \/ \E c \in Procs : CopyOp(c)

SpecCopy == InitCopy /\ [][NextCopy]_vars

\* two prepared clients, with rings of 2 frames and of 1, that start while
\* the owner's cursor is one frame before its boundary
StartCursor == BoundaryOf(2) - 1

InitSum ==
    /\ sem_exists = TRUE /\ sem_holder = 0
    /\ shm_exists = TRUE /\ shm_nattch = 2
    /\ shm_buffer_size = 2
    /\ shm_boundary = BoundaryOf(2)
    /\ shm_hw_ptr = StartCursor
    /\ opc = [p \in Procs |-> "idle"]
    /\ dsn = [p \in Procs |-> IF p \in {1, 2}
                THEN [semid |-> "cur", shmid |-> TRUE, first |-> p = 1,
                      server |-> p = 1, client |-> p # 1,
                      spcm |-> IF p = 1 THEN "hw" ELSE "fd"]
                ELSE NoDsn]
    /\ clients = {1, 2}
    /\ firsts = {1}
    /\ hw_openers = {1}
    /\ buffer_size = [p \in Procs |-> IF p = 1 THEN 2 ELSE 1]
    /\ boundary = [p \in Procs |-> BoundaryOf(buffer_size[p])]
    /\ period_size = buffer_size
    /\ stop_threshold \in [Procs -> 1..BoundaryOf(2)]
    /\ \A p \in Procs : stop_threshold[p] \in ThresholdsOf(buffer_size[p])
    /\ \A p \in Procs \ clients : stop_threshold[p] = 1
    /\ state = [p \in Procs |-> IF p \in {1, 2} THEN "PREPARED" ELSE "OPEN"]
    /\ hw_ptr = [p \in Procs |-> 0]
    /\ appl_ptr = [p \in Procs |-> 0]
    /\ slave_hw_ptr = [p \in Procs |-> 0]
    /\ avail_max = [p \in Procs |-> 0]
    /\ pc = [p \in Procs |-> "idle"]
    /\ drain_thr = [p \in Procs |-> 0]
    /\ last = [op |-> "prepare", c |-> 2, ret |-> 0, sync |-> NoSync, out |-> NoOut]
    /\ AdpcmIdle

\* the owner's cursor moves once both clients have started
OwnerAdvanceStarted ==
    /\ \A c \in clients : state[c] # "PREPARED"
    /\ OwnerAdvance

SumOp(c) ==
    \/ snd_pcm_dsnoop_hwsync(c)
    \/ snd_pcm_dsnoop_delay(c)
    \/ snd_pcm_dsnoop_avail_update(c)
    \/ snd_pcm_dsnoop_mmap_commit(c)
    \/ snd_pcm_dsnoop_start(c)

NextSum ==
    \/ OwnerAdvanceStarted
    \/ \E c \in Procs : SumOp(c)

SpecSum == InitSum /\ [][NextSum]_vars

\* the conversion plugin alone: no process has opened the dsnoop pcm
NextAdpcm == adpcm_encode \/ adpcm_decode

SpecAdpcm == InitOpen /\ [][NextAdpcm]_vars

\* ------------------------------------------------------------ properties
DrainOps == {"drain", "drain_nb", "drain_wait"}

SyncOps == {"hwsync", "delay", "avail_update", "mmap_commit"} \cup DrainOps

\* this step is the call of entry point op by client c: not a step of the
\* hardware and not a step inside open or close
Called(c, op) ==
    /\ last'.c = c
    /\ last'.op = op
    /\ shm_hw_ptr' = shm_hw_ptr
    /\ opc' = opc

\* this step is a call by c that ran snd_pcm_dsnoop_sync_ptr
Synced(c) == last'.sync.done /\ \E op \in SyncOps : Called(c, op)

\* the same, through an entry point that returns right after the sync
SyncedPlain(c) ==
    last'.sync.done /\ \E op \in SyncOps \ DrainOps : Called(c, op)

Max(a, b) == IF a > b THEN a ELSE b

\* C1: a sync that finds the owner's cursor h different from slave_hw_ptr
\* leaves slave_hw_ptr = (slave_hw_ptr + diff) mod the shared boundary, which
\* is h, and hw_ptr = (hw_ptr + diff) mod the client's boundary, with the one
\* diff = (h - slave_hw_ptr) mod the shared boundary for both.
C1_SyncAdvancesBoth ==
    [][\A c \in Procs :
          (Synced(c) /\ shm_hw_ptr # slave_hw_ptr[c]) =>
             LET D == (shm_hw_ptr - slave_hw_ptr[c]) % shm_boundary
             IN /\ slave_hw_ptr'[c] = (slave_hw_ptr[c] + D) % shm_boundary
                /\ slave_hw_ptr'[c] = shm_hw_ptr
                /\ hw_ptr'[c] = (hw_ptr[c] + D) % boundary[c]
                /\ last'.sync.diff = D]_vars

\* a sync has advanced a client whose boundary is not the shared one, and
\* the two cursors now differ
C1_Witness ==
    /\ last.sync.done /\ last.sync.diff > 0
    /\ boundary[last.c] # shm_boundary
    /\ slave_hw_ptr[last.c] = shm_hw_ptr
    /\ hw_ptr[last.c] # slave_hw_ptr[last.c]

\* C2: when the cursor h read by sync is smaller than slave_hw_ptr (the owner
\* wrapped), the diff is (h + boundary - slave_hw_ptr) mod boundary, positive
\* and below the boundary; boundary - 10 followed by 9 gives 19.
C2_WrapDiff ==
    [][/\ \A c \in Procs :
             (Synced(c) /\ shm_hw_ptr < slave_hw_ptr[c]) =>
                /\ last'.sync.diff
                      = (shm_hw_ptr + shm_boundary - slave_hw_ptr[c]) % shm_boundary
                /\ last'.sync.diff > 0
                /\ last'.sync.diff < shm_boundary
       /\ sync_diff(9, 4096 * 64 - 10, 4096 * 64) = 19]_vars

\* the last sync read a cursor that had wrapped: its diff is larger than the
\* cursor value it read
C2_Witness ==
    /\ last.sync.done
    /\ last.sync.diff > slave_hw_ptr[last.c]

\* C3: every sync that does not report Overrun returns the number of frames
\* by which it advanced the cursors, whatever the stop threshold.
C3_SyncReturnsDiff ==
    [][\A c \in Procs :
          (Synced(c) /\ last'.sync.ret # -EPIPE) =>
             last'.sync.ret = (slave_hw_ptr'[c] - slave_hw_ptr[c]) % shm_boundary]_vars

\* C4: after a sync has advanced the cursors, an unread-frame count at or
\* above the stop threshold makes the state XRUN, avail_max that count and
\* the result Overrun; a smaller count leaves the state alone and makes
\* avail_max the larger of its old value and the count.
C4_OverrunOrHighWater ==
    [][\A c \in Procs :
          (SyncedPlain(c) /\ shm_hw_ptr # slave_hw_ptr[c]) =>
             LET cnt == AvailOf(hw_ptr'[c], appl_ptr[c], boundary[c])
             IN IF cnt >= stop_threshold[c]
                THEN /\ state'[c] = "XRUN"
                     /\ avail_max'[c] = cnt
                     /\ last'.sync.ret = -EPIPE
                ELSE /\ state'[c] = state[c]
                     /\ avail_max'[c] = Max(avail_max[c], cnt)]_vars

\* C5: a sync of one client that ends in Overrun leaves every other client's
\* state, cursors, avail_max and available-frame count, the owner's cursor
\* and the segment's reference count as they were.
C5_OverrunIsLocal ==
    [][\A c \in Procs :
          (Synced(c) /\ last'.sync.ret = -EPIPE) =>
             /\ \A d \in Procs \ {c} :
                   /\ state'[d] = state[d]
                   /\ hw_ptr'[d] = hw_ptr[d]
                   /\ appl_ptr'[d] = appl_ptr[d]
                   /\ slave_hw_ptr'[d] = slave_hw_ptr[d]
                   /\ avail_max'[d] = avail_max[d]
                   /\ stop_threshold'[d] = stop_threshold[d]
                   /\ AvailOf(hw_ptr'[d], appl_ptr'[d], boundary'[d])
                         = AvailOf(hw_ptr[d], appl_ptr[d], boundary[d])
             /\ shm_hw_ptr' = shm_hw_ptr
             /\ shm_nattch' = shm_nattch
             /\ shm_exists' = shm_exists]_vars

\* client 2 has just overrun while client 1 is running with frames it has
\* read and frames it has not
C5_Witness ==
    /\ last.sync.done /\ last.sync.ret = -EPIPE /\ last.c = 2
    /\ state[2] = "XRUN"
    /\ state[1] = "RUNNING"
    /\ appl_ptr[1] > 0
    /\ AvailOf(hw_ptr[1], appl_ptr[1], boundary[1]) > 0

\* C9: start returns 0 only from PREPARED, and then the state is RUNNING; from
\* every other state it returns -EBADFD and changes neither the state nor a
\* cursor.
C9_StartOnlyFromPrepared ==
    [][\A c \in Procs :
          Called(c, "start") =>
             /\ last'.ret = 0 => (state[c] = "PREPARED" /\ state'[c] = "RUNNING")
             /\ state[c] # "PREPARED" =>
                   /\ last'.ret = -EBADFD
                   /\ state'[c] = state[c]
                   /\ hw_ptr'[c] = hw_ptr[c]
                   /\ appl_ptr'[c] = appl_ptr[c]
                   /\ slave_hw_ptr'[c] = slave_hw_ptr[c]
                   /\ avail_max'[c] = avail_max[c]]_vars

\* start was refused in XRUN
C9_Witness ==
    /\ last.op = "start" /\ last.ret = -EBADFD
    /\ state[last.c] = "XRUN"

\* C10: pause(enable) returns 0 exactly from RUNNING and leaves PAUSED,
\* pause(disable) returns 0 exactly from PAUSED and leaves RUNNING; otherwise
\* either returns -EBADFD and the state stays.
C10_PauseTransitions ==
    [][\A c \in Procs :
          /\ Called(c, "pause_on") =>
                IF state[c] = "RUNNING"
                THEN last'.ret = 0 /\ state'[c] = "PAUSED"
                ELSE last'.ret = -EBADFD /\ state'[c] = state[c]
          /\ Called(c, "pause_off") =>
                IF state[c] = "PAUSED"
                THEN last'.ret = 0 /\ state'[c] = "RUNNING"
                ELSE last'.ret = -EBADFD /\ state'[c] = state[c]]_vars

\* a paused stream has been resumed
C10_Witness ==
    /\ last.op = "pause_off" /\ last.ret = 0
    /\ state[last.c] = "RUNNING"

\* the processes between their attach to the segment and their detach from
\* it: inside open past shm_create_or_connect, holding the pcm, or inside close
Attached ==
    {p \in Procs : p \in clients \/ opc[p] \in {"o_setup", "c_down", "c_discard"}}

\* C6: while the segment lives exactly one process has seen first_instance,
\* only that process opened the hardware itself, every other one took the
\* client branch, and a process creates or attaches the segment only while it
\* holds the client token.
C6_OneFirstInstance ==
    /\ shm_exists => Cardinality(firsts) = 1
    /\ ~shm_exists => firsts = {}
    /\ hw_openers \subseteq firsts
    /\ Cardinality({p \in Procs : dsn[p].shmid /\ dsn[p].first}) <= 1
    /\ \A p \in Procs :
          /\ (dsn[p].spcm = "hw" \/ dsn[p].server) => (dsn[p].first /\ p \in firsts)
          /\ (p \in clients /\ ~dsn[p].first) =>
                (dsn[p].client /\ dsn[p].spcm = "fd" /\ p \notin hw_openers)
          /\ opc[p] \in {"o_shm", "o_setup"} => sem_holder = p

\* two processes hold the pcm: the first instance with the hardware opened by
\* itself and a client with a handle from the owner
C6_Witness ==
    \E p, q \in clients :
       /\ p # q
       /\ dsn[p].first /\ dsn[p].server /\ dsn[p].spcm = "hw"
       /\ ~dsn[q].first /\ dsn[q].client /\ dsn[q].spcm = "fd"
       /\ hw_openers = {p} /\ firsts = {p}
       /\ sem_holder = 0

\* C7: the reference count of the segment is the number of processes attached,
\* and the segment exists exactly while some process is attached.
C7_RefCountIsAttached ==
    /\ shm_nattch = Cardinality(Attached)
    /\ shm_exists <=> Attached # {}

\* C8: a process that has returned from open or close does not hold the
\* client token.
C8_TokenReleasedOnReturn ==
    \A p \in Procs : opc[p] = "idle" => sem_holder # p

\* the fields of client c a call may not touch when it refuses
ClientFields(c) ==
    <<state[c], hw_ptr[c], appl_ptr[c], slave_hw_ptr[c], avail_max[c], stop_threshold[c]>>

StateOps ==
    {"start", "pause_on", "pause_off", "drop", "drain", "drain_nb", "hwsync",
     "delay", "prepare", "reset"}

\* C11: whenever start, pause, drop, drain, hwsync, delay, prepare or reset
\* returns -EBADFD, the client's state, hw_ptr, appl_ptr, slave_hw_ptr,
\* avail_max and stop threshold are what they were before the call.
C11_RefusalChangesNothing ==
    [][\A c \in Procs :
          ((\E op \in StateOps : Called(c, op)) /\ last'.ret = -EBADFD) =>
             ClientFields(c)' = ClientFields(c)]_vars

\* hwsync was refused in SETUP on a client whose cursors had moved
C11_Witness ==
    /\ last.op = "hwsync" /\ last.ret = -EBADFD
    /\ state[last.c] = "SETUP"
    /\ hw_ptr[last.c] > 0 /\ appl_ptr[last.c] > 0

\* C12: no single operation takes a client from XRUN to PREPARED or to
\* RUNNING; the way back goes through SETUP.
C12_XrunLeavesThroughSetup ==
    [][\A c \in Procs :
          state[c] = "XRUN" => state'[c] \notin {"PREPARED", "RUNNING"}]_vars

\* C13: a client in XRUN stays in XRUN under hwsync, delay, status,
\* avail_update, mmap_commit, forward, rewind, start and pause; only drop,
\* drain and prepare change its state.
C13_XrunNotClearedSilently ==
    [][\A c \in Procs :
          state[c] = "XRUN" =>
             /\ (\E op \in {"hwsync", "delay", "status", "avail_update", "mmap_commit",
                             "forward", "rewind", "start", "pause_on", "pause_off"} :
                    Called(c, op)) => state'[c] = "XRUN"
             /\ state'[c] # "XRUN" =>
                   \E op \in {"drop", "drain", "drain_nb", "prepare"} : Called(c, op)]_vars

\* start was refused on a client in XRUN, which stays there
C13_Witness ==
    /\ last.op = "start" /\ last.ret = -EBADFD
    /\ state[last.c] = "XRUN"
    /\ avail_max[last.c] > 0

\* C14: in XRUN every call of hwsync, delay, avail_update and mmap_commit
\* returns -EPIPE and leaves appl_ptr alone.
C14_XrunReportedAgain ==
    [][\A c \in Procs :
          (state[c] = "XRUN" /\ \E op \in {"hwsync", "delay", "avail_update", "mmap_commit"} :
                                  Called(c, op)) =>
             /\ last'.ret = -EPIPE
             /\ appl_ptr'[c] = appl_ptr[c]]_vars

\* the stop threshold drain polls with (lines 440-441)
DrainThreshold(c) ==
    IF stop_threshold[c] > buffer_size[c] THEN buffer_size[c] ELSE stop_threshold[c]

C16_BlockingDrainReturns ==
    /\ [][\A c \in Procs :
             /\ (Called(c, "drain_wait") /\ pc[c] = "idle") => pc'[c] = "drain_wait"
             /\ (pc[c] = "drain_wait" /\ hw_ptr'[c] # hw_ptr[c]) =>
                   (pc'[c] = "drain_wait" \/ (pc'[c] = "idle" /\ state'[c] = "SETUP"))
             /\ (pc[c] = "drain_wait" /\ pc'[c] = "idle") =>
                   (Called(c, "drain") /\ last'.ret = 0 /\ state'[c] = "SETUP")]_vars
    /\ \A c \in Procs :
          (pc[c] = "drain_wait") ~> (pc[c] = "idle" /\ state[c] = "SETUP")

\* a blocking drain waits after a poll that found a new frame, below the
\* threshold
C16_Witness ==
    /\ last.op = "drain_wait" /\ last.sync.done /\ last.sync.diff > 0
    /\ pc[last.c] = "drain_wait"
    /\ state[last.c] = "RUNNING"
    /\ snd_pcm_mmap_capture_avail(last.c) > 0

\* C17: a blocking drain keeps polling (stays in its loop, waiting for the
\* next poll) only while unread frames are pending; with none pending it has
\* returned.
C17_DrainPollsWhilePending ==
    \A c \in Procs :
       pc[c] = "drain_wait" => snd_pcm_mmap_capture_avail(c) > 0

\* C18: in every state writei and writen return -ENODEV and change neither
\* the state nor a cursor.
C18_WritesRefused ==
    [][\A c \in Procs :
          (Called(c, "writei") \/ Called(c, "writen")) =>
             /\ last'.ret = -ENODEV
             /\ ClientFields(c)' = ClientFields(c)
             /\ pc'[c] = pc[c]]_vars

\* a write was refused on a running stream with frames captured
C18_Witness ==
    /\ last.op \in {"writei", "writen"} /\ last.ret = -ENODEV
    /\ state[last.c] = "RUNNING"
    /\ hw_ptr[last.c] > 0

\* C19: a status query reports the larger of avail_max and the current
\* available count, zeroes avail_max and changes neither the state nor a
\* cursor; and avail_max is the high-water mark since the previous query: no
\* other step lowers it, and every sync that raises the unread-frame count
\* leaves avail_max at least that count.
C19_StatusHighWater ==
    [][\A c \in clients :
          IF Called(c, "status")
          THEN /\ last'.ret = 0
               /\ last'.out.avail = snd_pcm_mmap_capture_avail(c)
               /\ last'.out.avail_max = Max(avail_max[c], snd_pcm_mmap_capture_avail(c))
               /\ avail_max'[c] = 0
               /\ <<state[c], hw_ptr[c], appl_ptr[c], slave_hw_ptr[c]>>'
                     = <<state[c], hw_ptr[c], appl_ptr[c], slave_hw_ptr[c]>>
          ELSE /\ avail_max'[c] >= avail_max[c]
               /\ (/\ Synced(c)
                   /\ AvailOf(hw_ptr'[c], appl_ptr[c], boundary[c])
                         > snd_pcm_mmap_capture_avail(c))
                  => avail_max'[c] >= AvailOf(hw_ptr'[c], appl_ptr[c], boundary[c])]_vars

\* this step is the return of a successful open to process p
Attaches(p) == p \notin clients /\ p \in clients'

\* C20 as stated: a client that attaches has slave_hw_ptr equal to the owner's
\* cursor at that time, and every sync counts the frames from slave_hw_ptr to
\* the cursor it reads.
C20_SlaveCursorAtAttach ==
    [][\A c \in Procs :
          /\ Attaches(c) => slave_hw_ptr'[c] = shm_hw_ptr'
          /\ Synced(c) =>
                last'.sync.diff = (shm_hw_ptr - slave_hw_ptr[c]) % shm_boundary]_vars

\* C20 amended: a client attaches in OPEN with slave_hw_ptr 0; a successful
\* start, and reset, make slave_hw_ptr the owner's cursor at that time; a sync
\* runs only in RUNNING and counts the frames from slave_hw_ptr to the cursor
\* it reads, so the first sync counts the frames captured since start.
C20_SlaveCursorAtStart ==
    [][\A c \in Procs :
          /\ Attaches(c) => (slave_hw_ptr'[c] = 0 /\ state'[c] = "OPEN")
          /\ (Called(c, "start") /\ last'.ret = 0) => slave_hw_ptr'[c] = shm_hw_ptr
          /\ Called(c, "reset") => slave_hw_ptr'[c] = shm_hw_ptr
          /\ (\E op \in {"prepare", "hwsync"} : Called(c, op)) /\ ~last'.sync.done
                => slave_hw_ptr'[c] = slave_hw_ptr[c]
          /\ Synced(c) =>
                /\ state[c] = "RUNNING"
                /\ last'.sync.diff = (shm_hw_ptr - slave_hw_ptr[c]) % shm_boundary]_vars

\* a client that attached to a segment whose owner had captured has synced,
\* and counted fewer frames than the value of the owner's cursor
C20_Witness ==
    /\ last.op = "hwsync" /\ last.sync.done
    /\ dsn[last.c].client
    /\ last.sync.diff > 0
    /\ last.sync.diff < shm_hw_ptr

\* C21: in every state of a configured client other than XRUN the unread
\* frames, by which appl_ptr lags hw_ptr, are at most buffer_size.
C21_LagWithinBuffer ==
    \A c \in clients :
       state[c] \notin {"OPEN", "XRUN"} =>
          snd_pcm_mmap_capture_avail(c) <= buffer_size[c]

\* C24: outside RUNNING and DRAINING no call of hwsync, delay, avail_update,
\* mmap_commit, status or drain runs the sync: hw_ptr and slave_hw_ptr stay.
C24_SyncOnlyWhileRunning ==
    [][\A c \in Procs :
          (/\ state[c] \notin {"RUNNING", "DRAINING"}
           /\ \E op \in SyncOps \cup {"status"} : Called(c, op)) =>
             /\ ~last'.sync.done
             /\ hw_ptr'[c] = hw_ptr[c]
             /\ slave_hw_ptr'[c] = slave_hw_ptr[c]]_vars

\* avail_update was called on a paused stream while the owner's cursor was
\* ahead of the client's copy of it, which stays behind
C24_Witness ==
    /\ last.op = "avail_update" /\ ~last.sync.done
    /\ state[last.c] = "PAUSED"
    /\ shm_hw_ptr # slave_hw_ptr[last.c]

\* C25: a status query on a RUNNING stream synchronizes first: afterwards
\* slave_hw_ptr is the owner's cursor and the available count reported counts
\* the frames up to it.
C25_StatusSyncs ==
    [][\A c \in Procs :
          (Called(c, "status") /\ state[c] = "RUNNING") =>
             /\ slave_hw_ptr'[c] = shm_hw_ptr
             /\ last'.out.avail =
                   AvailOf(sync_hw_ptr(hw_ptr[c],
                                       sync_diff(shm_hw_ptr, slave_hw_ptr[c], shm_boundary),
                                       boundary[c]),
                           appl_ptr[c], boundary[c])]_vars

\* C27: when drain returns, on any path, the stop threshold is what it was
\* when drain was called.
C27_DrainKeepsThreshold ==
    [][\A c \in Procs :
          ((\E op \in {"drain", "drain_nb"} : Called(c, op)) /\ pc'[c] = "idle") =>
             stop_threshold'[c] =
                IF pc[c] = "drain_wait" THEN drain_thr[c] ELSE stop_threshold[c]]_vars

\* C28: the state is always one of OPEN, SETUP, PREPARED, RUNNING, PAUSED and
\* XRUN; SETUP is entered only by drop or by drain, XRUN only by a sync that
\* reports the overrun.
C28_StatesAndEntries ==
    [][\A c \in Procs :
          /\ state[c] \in {"OPEN", "SETUP", "PREPARED", "RUNNING", "PAUSED", "XRUN"}
          /\ state'[c] \in {"OPEN", "SETUP", "PREPARED", "RUNNING", "PAUSED", "XRUN"}
          /\ (state'[c] = "SETUP" /\ state[c] # "SETUP") =>
                \E op \in {"drop", "drain", "drain_nb"} : Called(c, op)
          /\ (state'[c] = "XRUN" /\ state[c] # "XRUN") =>
                (SyncedPlain(c) /\ last'.sync.ret = -EPIPE /\ state[c] = "RUNNING")]_vars

\* a blocking drain has ended through the overrun its sync found: SETUP with
\* more unread frames than the ring holds
C28_Witness ==
    /\ last.op = "drain" /\ last.ret = 0
    /\ last.sync.done /\ last.sync.ret = -EPIPE
    /\ state[last.c] = "SETUP"
    /\ snd_pcm_mmap_capture_avail(last.c) > buffer_size[last.c]

\* this step is a call by c that ran snd_pcm_dsnoop_sync_ptr, whatever else
\* the step changed
SyncStep(c) ==
    /\ last'.sync.done /\ last'.c = c /\ last'.op \in SyncOps
    /\ opc' = opc
    /\ (last' # last \/ pcmvars' # pcmvars)

\* C22: a sync, from whichever entry point, leaves the gate, the shared
\* descriptor and the owner's cursor as they were, and the gate is taken only
\* by a step of open or of close.
C22_SyncLeavesSharedAlone ==
    [][/\ \A c \in Procs :
             SyncStep(c) =>
                /\ sem_exists' = sem_exists /\ sem_holder' = sem_holder
                /\ shm_exists' = shm_exists /\ shm_nattch' = shm_nattch
                /\ shm_buffer_size' = shm_buffer_size
                /\ shm_boundary' = shm_boundary
                /\ shm_hw_ptr' = shm_hw_ptr
       /\ (sem_holder' # sem_holder /\ sem_holder' # 0) =>
             /\ opc[sem_holder'] \in {"o_down", "c_down"}
             /\ opc'[sem_holder'] # opc[sem_holder']]_vars

\* a client synced, moving its cursors, while another process held the gate
\* inside open or close
C22_Witness ==
    /\ last.sync.done /\ last.sync.diff > 0
    /\ sem_holder # 0 /\ sem_holder # last.c
    /\ opc[sem_holder] \in {"o_shm", "o_setup", "c_discard"}

RECURSIVE CopiedFrames(_)
CopiedFrames(cp) ==
    IF cp = << >> THEN 0 ELSE Head(cp).size + CopiedFrames(Tail(cp))

\* the places where the sub-copies stop being contiguous on the owner's side
\* and on the client's side
SrcBreaks(cp) ==
    {k \in 2..Len(cp) : cp[k].src_ofs # cp[k-1].src_ofs + cp[k-1].size}

DstBreaks(cp) ==
    {k \in 2..Len(cp) : cp[k].dst_ofs # cp[k-1].dst_ofs + cp[k-1].size}

\* C23: the copy of one sync ends, moves diff frames in all, the first read
\* at slave_hw_ptr mod the owner's buffer_size and written at hw_ptr mod the
\* client's, each sub-copy continuing where the one before stopped (modulo
\* the ring) and lying inside both rings; when diff exceeds neither ring the
\* frames form at most two contiguous ranges on each side.
C23_CopyExact ==
    [][\A c \in Procs :
          (Synced(c) /\ last'.sync.diff # 0) =>
             LET cp == last'.sync.copies
                 bc == buffer_size[c]
                 bs == shm_buffer_size
             IN /\ CopiedFrames(cp) = last'.sync.diff
                /\ cp[1].src_ofs = slave_hw_ptr[c] % bs
                /\ cp[1].dst_ofs = hw_ptr[c] % bc
                /\ \A k \in 1..Len(cp) :
                      /\ cp[k].size >= 1
                      /\ cp[k].src_ofs >= 0 /\ cp[k].src_ofs + cp[k].size <= bs
                      /\ cp[k].dst_ofs >= 0 /\ cp[k].dst_ofs + cp[k].size <= bc
                /\ \A k \in 2..Len(cp) :
                      /\ cp[k].src_ofs = (cp[k-1].src_ofs + cp[k-1].size) % bs
                      /\ cp[k].dst_ofs = (cp[k-1].dst_ofs + cp[k-1].size) % bc
                /\ (last'.sync.diff <= bc /\ last'.sync.diff <= bs) =>
                      /\ Cardinality(SrcBreaks(cp)) <= 1
                      /\ Cardinality(DstBreaks(cp)) <= 1]_vars

\* a sync between rings of different sizes copied no more frames than either
\* holds and had to cut once for the end of each ring: three sub-copies
C23_Witness ==
    /\ last.sync.done /\ Len(last.sync.copies) = 3
    /\ buffer_size[last.c] # shm_buffer_size
    /\ last.sync.diff <= buffer_size[last.c]
    /\ last.sync.diff <= shm_buffer_size
    /\ Cardinality(SrcBreaks(last.sync.copies)) = 1
    /\ Cardinality(DstBreaks(last.sync.copies)) = 1

\* the frames the owner captured between the start of the clients and the
\* last cursor value c read, modulo the owner's boundary
OwnerAdvanceSeen(c) == (slave_hw_ptr[c] - StartCursor) % shm_boundary

\* hw_ptr, which starts at 0 and moves by the diffs only, is their sum
\* modulo the client's boundary
SumMatches(c) == hw_ptr[c] = OwnerAdvanceSeen(c) % boundary[c]

\* C26: each sync of a started client leaves slave_hw_ptr at the cursor it
\* read and hw_ptr at the owner's whole advance since the start (modulo the
\* boundary), and changes no other client's cursors, however the syncs of the
\* clients and the owner's advances interleave.
C26_DiffsSumToAdvance ==
    [][/\ \A c \in clients :
             state'[c] \in {"RUNNING", "XRUN"} => SumMatches(c)'
       /\ \A c \in clients :
             Synced(c) =>
                /\ slave_hw_ptr'[c] = shm_hw_ptr
                /\ \A d \in clients \ {c} :
                      /\ hw_ptr'[d] = hw_ptr[d]
                      /\ slave_hw_ptr'[d] = slave_hw_ptr[d]]_vars

\* both clients are running after syncs at different cursor values, one of
\* them past the wrap of the owner's cursor
C26_Witness ==
    /\ state[1] = "RUNNING" /\ state[2] = "RUNNING"
    /\ last.sync.done /\ last.sync.diff > 0
    /\ slave_hw_ptr[1] # slave_hw_ptr[2]
    /\ slave_hw_ptr[last.c] < StartCursor
    /\ hw_ptr[1] > 0 /\ hw_ptr[2] > 0

\* the sum the quantizer means by pred_diff: step/8 and the terms step,
\* step/2, step/4 selected by the bits of the code
ExactPredDiff(step, code) ==
    step \div 8
    + (IF CodeBit(code, 4) THEN step ELSE 0)
    + (IF CodeBit(code, 2) THEN step \div 2 ELSE 0)
    + (IF CodeBit(code, 1) THEN step \div 4 ELSE 0)

\* C29: in adpcm_encoder and adpcm_decoder the 16-bit intermediates hold the
\* exact values: diff is sl - pred_val, pred_diff is step/8 plus the selected
\* terms, and a code without the sign bit never lowers pred_val, one with it
\* never raises it.
C29_NoOverflow ==
    [][/\ (adp'.n # adp.n) =>
             LET e == adpcm_encoder(adp'.sl, enc)
             IN /\ e.diff = adp'.sl - enc.pred_val
                /\ e.pred_diff = ExactPredDiff(StepSize[enc.step_idx + 1], e.code)
                /\ ~CodeBit(e.code, 8) => enc'.pred_val >= enc.pred_val
                /\ CodeBit(e.code, 8) => enc'.pred_val <= enc.pred_val
       /\ (adp.pending /\ ~adp'.pending) =>
             LET d == adpcm_decoder(adp.code % 16, dec)
             IN /\ d.pred_diff = ExactPredDiff(StepSize[dec.step_idx + 1], adp.code)
                /\ ~CodeBit(adp.code, 8) => dec'.pred_val >= dec.pred_val
                /\ CodeBit(adp.code, 8) => dec'.pred_val <= dec.pred_val]_vars

\* C30: whenever the decoder has decoded every code the encoder emitted
\* since adpcm_init, the two channel states are equal, step_idx is within
\* 0..88 and pred_val within -32768..32767, and the decoder's last output is
\* the encoder's pred_val.
C30_Lockstep ==
    ~adp.pending =>
       /\ enc = dec
       /\ enc.step_idx \in 0..88
       /\ enc.pred_val \in -32768..32767
       /\ adp.n > 0 => adp.out = enc.pred_val

\* the decoder followed the encoder to the upper clamp of the step index,
\* with pred_val farther from the last sample than 16 bits hold
C30_Witness ==
    /\ adp.n > 0 /\ ~adp.pending
    /\ enc = dec
    /\ enc.step_idx = 88
    /\ adp.sl - enc.pred_val \notin -32768..32767

====
